---- MODULE Spec2Model ----
(***************************************************************************)
(* Model of the Stemify Sieve API (python-api/main.py): the POST /separate *)
(* handler separate_audio, its helper upload_file_to_supabase, and the     *)
(* pure function get_stem_name.                                            *)
(*                                                                         *)
(* Representation.                                                         *)
(*  - A Python Optional value is a sequence of length 0 (None) or 1.       *)
(*  - A URL or storage path is a sequence of string chunks whose           *)
(*    concatenation is the Python string; the chunk "/" is the separator   *)
(*    character, the chunk "?" the query-separator character.  No other    *)
(*    chunk contains either character.                                     *)
(*  - overlap is held in hundredths (25 stands for 0.25).                  *)
(***************************************************************************)
EXTENDS Integers, Sequences, FiniteSets, TLC

VARIABLES
    pc,                     \* position of the handler separate_audio
    request,                \* the SeparationRequest body
    supabase,               \* module-level storage client: TRUE iff configured
    provider,               \* what sieve/demucs will do when run
    disk,                   \* local paths for which os.path.exists is true
    user_id,                \* handler locals
    model,
    two_stems,
    overlap,
    shifts,
    demucs_call,            \* keyword arguments handed to demucs.run (Optional)
    result,                 \* value returned by demucs.run
    i,                      \* enumerate() position in result (0-based)
    output_files,
    local_files_to_cleanup,
    c,                      \* position of the cleanup loop (0-based)
    trace,                  \* external operations performed, in order
    response,               \* HTTP response of the handler (Optional)
    call,                   \* arguments of a direct get_stem_name call (Optional)
    ret                     \* its return value (Optional)

vars == <<pc, request, supabase, provider, disk, user_id, model, two_stems,
          overlap, shifts, demucs_call, result, i, output_files,
          local_files_to_cleanup, c, trace, response, call, ret>>

handler_vars == <<pc, request, supabase, provider, disk, user_id, model,
                  two_stems, overlap, shifts, demucs_call, result, i,
                  output_files, local_files_to_cleanup, c, trace, response>>

----------------------------------------------------------------------------
(* Python values *)

None == <<>>
Some(v) == <<v>>
Get(o) == o[1]
\* truthiness of an Optional[str]: None and "" are falsy
TruthyStr(o) == o /= None /\ Get(o) /= ""
\* truthiness of an Optional[list] or of a chunked string: None and empty are falsy
TruthySeq(o) == o /= None /\ Get(o) /= <<>>
Range(s) == {s[k] : k \in 1..Len(s)}
Unbound == "<unbound>"
UnboundNum == 0 - 1

----------------------------------------------------------------------------
(* Bounds of the model *)

MaxUrlLen == 5
MaxStems == 2
MaxOutputs == 2
MaxIndex == 8

RECURSIVE SeqsUpTo(_, _)
SeqsUpTo(S, n) ==
    IF n = 0 THEN {<<>>}
    ELSE LET shorter == SeqsUpTo(S, n - 1)
         IN shorter \cup {Append(s, x) : s \in {t \in shorter : Len(t) = n - 1}, x \in S}

----------------------------------------------------------------------------
(* str.split('/') on a chunked string *)

RECURSIVE SplitFrom(_, _)
SplitFrom(chunks, parts) ==
    IF chunks = <<>> THEN parts
    ELSE IF Head(chunks) = "/"
         THEN SplitFrom(Tail(chunks), Append(parts, ""))
         ELSE SplitFrom(Tail(chunks),
                        [parts EXCEPT ![Len(parts)] = @ \o Head(chunks)])

Split(chunks) == SplitFrom(chunks, <<"">>)

----------------------------------------------------------------------------
(* separate_audio: owner extraction, main.py lines 119-129 *)

\* the for loop over enumerate(url_parts); k is the 1-based position
RECURSIVE ScanParts(_, _)
ScanParts(url_parts, k) ==
    IF k > Len(url_parts) THEN None
    ELSE IF url_parts[k] = "audio-files" /\ k + 1 <= Len(url_parts)
         THEN Some(url_parts[k + 1])
         ELSE ScanParts(url_parts, k + 1)

\* lines 128-129 testing "user_id is None" instead of "not user_id"
ExtractUserIdNoneOnly(audio_url) ==
    LET found == ScanParts(Split(audio_url), 1)
    IN IF found = None THEN "anonymous" ELSE Get(found)

ExtractUserId(audio_url) ==
    LET found == ScanParts(Split(audio_url), 1)
    IN IF ~TruthyStr(found) THEN "anonymous" ELSE Get(found)

----------------------------------------------------------------------------
(* separate_audio: parameter derivation, main.py lines 138-161 *)

RecognizedStems == {"vocals", "drums", "bass", "other", "guitar", "piano"}

ProOverlap == 25
ProShifts == 1

\* lines 142-145
SelectTwoStemsAnyLength(req) ==
    IF TruthySeq(req.selected_stems)
       /\ Get(req.selected_stems)[1] \in RecognizedStems
    THEN Get(req.selected_stems)[1]
    ELSE req.two_stems

SelectTwoStems(req) ==
    IF TruthySeq(req.selected_stems) /\ Len(Get(req.selected_stems)) = 1
       /\ Get(req.selected_stems)[1] \in RecognizedStems
    THEN Get(req.selected_stems)[1]
    ELSE req.two_stems

\* lines 149-150
SelectModelFirstOnly(req) ==
    IF TruthySeq(req.selected_stems)
       /\ Get(req.selected_stems)[1] \in {"guitar", "piano"}
    THEN "htdemucs_6s"
    ELSE req.model

SelectModel(req) ==
    IF TruthySeq(req.selected_stems)
       /\ ("guitar" \in Range(Get(req.selected_stems))
           \/ "piano" \in Range(Get(req.selected_stems)))
    THEN "htdemucs_6s"
    ELSE req.model

\* lines 154-161
QualityModel(req, m) ==
    IF req.quality = Some("pro") /\ m = "htdemucs" THEN "htdemucs_ft" ELSE m

QualityOverlapKeepsRequested(req) == req.overlap

QualityOverlap(req) ==
    IF req.quality = Some("pro") THEN ProOverlap ELSE req.overlap

QualityShifts(req) ==
    IF req.quality = Some("pro") THEN ProShifts ELSE req.shifts

----------------------------------------------------------------------------
(* get_stem_name, main.py lines 244-262 *)

stem_names_4 == <<"vocals", "drums", "bass", "other">>
stem_names_6 == <<"vocals", "drums", "bass", "other", "guitar", "piano">>

get_stem_name_four_only(index, two, m) ==
    IF two /= "None"
    THEN IF index = 0 THEN two ELSE "no_" \o two
    ELSE IF index < Len(stem_names_4) THEN stem_names_4[index + 1]
         ELSE "stem_" \o ToString(index)

get_stem_name(index, two, m) ==
    IF two /= "None"
    THEN IF index = 0 THEN two ELSE "no_" \o two
    ELSE IF m = "htdemucs_6s"
         THEN IF index < Len(stem_names_6) THEN stem_names_6[index + 1]
              ELSE "stem_" \o ToString(index)
         ELSE IF index < Len(stem_names_4) THEN stem_names_4[index + 1]
              ELSE "stem_" \o ToString(index)

----------------------------------------------------------------------------
(* upload_file_to_supabase, main.py lines 59-104 *)

\* what the file system and the storage service do during one upload
StorageBehaviours ==
    {"read_raises", "upload_raises", "lookup_raises",
     "str", "str_q", "dict", "dict_none"}

\* one external operation: how is the storage behaviour met (uploads only)
Event(op, index, path, dest, ok, how) ==
    [op |-> op, index |-> index, path |-> path, dest |-> dest, ok |-> ok,
     how |-> how]

\* line 67: str(uuid.uuid4()), a fresh identifier per call
Uuid4(n) == "uuid" \o ToString(n)

\* line 68
StoragePath(uid, file_id, stem_name) ==
    <<uid, "/", "separated", "/", file_id \o "_" \o stem_name \o ".wav">>

PublicBase == <<"https:", "/", "/", "project.supabase.co", "/", "audio-files", "/">>

\* the value get_public_url returns (line 89): a str, or a dict in older clients
GetPublicUrlReturn(b, storage_path) ==
    LET u == PublicBase \o storage_path
    IN [isdict    |-> b \in {"dict", "dict_none"},
        str       |-> IF b = "str" THEN u ELSE IF b = "str_q" THEN u \o <<"?">> ELSE <<>>,
        publicURL |-> None,
        publicUrl |-> IF b = "dict" THEN Some(u) ELSE None,
        public_url |-> None]

\* Python's "a or b"
PyOr(a, b) == IF TruthySeq(a) THEN a ELSE b

\* str.rstrip('?')
RECURSIVE RStripQ(_)
RStripQ(u) ==
    IF u /= <<>> /\ u[Len(u)] = "?" THEN RStripQ(SubSeq(u, 1, Len(u) - 1)) ELSE u

\* lines 92-97
NormalizePublicUrl(r) ==
    LET v == IF r.isdict
             THEN PyOr(PyOr(r.publicURL, r.publicUrl), r.public_url)
             ELSE Some(r.str)
    IN IF TruthySeq(v) /\ Get(v)[Len(Get(v))] = "?"
       THEN Some(RStripQ(Get(v)))
       ELSE v

UploadReturn(url, events, raised) ==
    [url |-> url, events |-> events, raised |-> raised]

\* the try block guards the upload only: a failing lookup escapes to the caller
upload_file_to_supabase_narrow_try(file_path, stem_name, uid, n, b) ==
    IF ~supabase THEN UploadReturn(None, <<>>, FALSE)
    ELSE LET storage_path == StoragePath(uid, Uuid4(n), stem_name)
             opened == Event("open", n, file_path, <<>>, b /= "read_raises", b)
             put    == Event("storage.upload", n, file_path, storage_path,
                             b /= "upload_raises", b)
             got    == Event("storage.get_public_url", n, file_path, storage_path,
                             b /= "lookup_raises", b)
         IN IF b = "read_raises" THEN UploadReturn(None, <<opened>>, FALSE)
            ELSE IF b = "upload_raises" THEN UploadReturn(None, <<opened, put>>, FALSE)
            ELSE IF b = "lookup_raises" THEN UploadReturn(None, <<opened, put, got>>, TRUE)
            ELSE UploadReturn(NormalizePublicUrl(GetPublicUrlReturn(b, storage_path)),
                              <<opened, put, got>>, FALSE)

\* n is the number handed to Uuid4; b is the environment's behaviour
upload_file_to_supabase(file_path, stem_name, uid, n, b) ==
    IF ~supabase THEN UploadReturn(None, <<>>, FALSE)
    ELSE LET storage_path == StoragePath(uid, Uuid4(n), stem_name)
             opened == Event("open", n, file_path, <<>>, b /= "read_raises", b)
             put    == Event("storage.upload", n, file_path, storage_path,
                             b /= "upload_raises", b)
             got    == Event("storage.get_public_url", n, file_path, storage_path,
                             b /= "lookup_raises", b)
         IN IF b = "read_raises" THEN UploadReturn(None, <<opened>>, FALSE)
            ELSE IF b = "upload_raises" THEN UploadReturn(None, <<opened, put>>, FALSE)
            ELSE IF b = "lookup_raises" THEN UploadReturn(None, <<opened, put, got>>, FALSE)
            ELSE UploadReturn(NormalizePublicUrl(GetPublicUrlReturn(b, storage_path)),
                              <<opened, put, got>>, FALSE)

----------------------------------------------------------------------------
(* separate_audio, main.py lines 111-242 *)

\* lines 240-242: HTTPException(status_code=500, detail=...)
ErrorResponseBareMessage(message) ==
    [status_code |-> 500, detail |-> message, status |-> "",
     output_files |-> None, parameters |-> None]

ErrorResponse(message) ==
    [status_code |-> 500,
     detail |-> "Failed to complete separation: " \o message,
     status |-> "", output_files |-> None, parameters |-> None]

\* lines 227-238
SuccessResponse(files, m, two, ov, sh, fmt) ==
    [status_code |-> 200, detail |-> "", status |-> "completed",
     output_files |-> Some(files),
     parameters |-> Some([model |-> m, two_stems |-> two, overlap |-> ov,
                          shifts |-> sh, audio_format |-> fmt])]

\* lines 193-195
LocalFilePath(output_file) ==
    IF output_file.has_path /\ output_file.path /= ""
    THEN Some(output_file.path)
    ELSE None

\* line 198
Readable(local_file_path) ==
    TruthyStr(local_file_path) /\ Get(local_file_path) \in disk

\* lines 204-208
EntryIndexCompacted(pos, files) == Len(files)

EntryIndex(pos, files) == pos

OutputEntry(index, public_url, stem_name) ==
    [index |-> index, url |-> public_url, stem_name |-> stem_name]

\* line 211
MarkForCleanupIfUploaded(queue, local_file_path, public_url) ==
    IF public_url /= None THEN Append(queue, local_file_path) ELSE queue

MarkForCleanup(queue, local_file_path, public_url) ==
    Append(queue, local_file_path)

\* line 220: the cleanup loop visits the queue front to back
NextToRemoveReversed(queue, k) == queue[Len(queue) - k]

NextToRemove(queue, k) == queue[k + 1]

\* lines 119-131
ExtractUser ==
    /\ pc = "extract_user"
    /\ user_id' = ExtractUserId(request.audio_url)
    /\ pc' = "configure_stems"
    /\ UNCHANGED <<request, supabase, provider, disk, model, two_stems, overlap,
                   shifts, demucs_call, result, i, output_files,
                   local_files_to_cleanup, c, trace, response, call, ret>>

\* lines 138-151
ConfigureStems ==
    /\ pc = "configure_stems"
    /\ two_stems' = SelectTwoStems(request)
    /\ model' = SelectModel(request)
    /\ pc' = "configure_quality"
    /\ UNCHANGED <<request, supabase, provider, disk, user_id, overlap, shifts,
                   demucs_call, result, i, output_files, local_files_to_cleanup,
                   c, trace, response, call, ret>>

\* lines 153-163
ConfigureQuality ==
    /\ pc = "configure_quality"
    /\ model' = QualityModel(request, model)
    /\ overlap' = QualityOverlap(request)
    /\ shifts' = QualityShifts(request)
    /\ pc' = "run"
    /\ UNCHANGED <<request, supabase, provider, disk, user_id, two_stems,
                   demucs_call, result, i, output_files, local_files_to_cleanup,
                   c, trace, response, call, ret>>

\* lines 171-178: the keyword arguments of demucs.run
DemucsArguments ==
    [model |-> model, two_stems |-> two_stems, overlap |-> overlap,
     shifts |-> shifts, audio_format |-> request.audio_format]

\* lines 171-178 and 240-242: demucs.run raises
DemucsRaises ==
    /\ pc = "run"
    /\ provider.raises
    /\ demucs_call' = Some(DemucsArguments)
    /\ trace' = Append(trace, Event("demucs.run", 0, "", <<>>, FALSE, ""))
    /\ response' = Some(ErrorResponse(provider.message))
    /\ pc' = "error"
    /\ UNCHANGED <<request, supabase, provider, disk, user_id, model, two_stems,
                   overlap, shifts, result, i, output_files,
                   local_files_to_cleanup, c, call, ret>>

\* lines 171-186: demucs.run returns
DemucsReturns ==
    /\ pc = "run"
    /\ ~provider.raises
    /\ demucs_call' = Some(DemucsArguments)
    /\ trace' = Append(trace, Event("demucs.run", 0, "", <<>>, TRUE, ""))
    /\ result' = [iterable |-> provider.iterable, outputs |-> provider.outputs]
    /\ output_files' = <<>>
    /\ local_files_to_cleanup' = <<>>
    /\ i' = 0
    /\ pc' = "process"
    /\ UNCHANGED <<request, supabase, provider, disk, user_id, model, two_stems,
                   overlap, shifts, c, response, call, ret>>

\* lines 189-215: one iteration of the loop over enumerate(result)
ProcessOutput ==
    /\ pc = "process"
    /\ result.iterable
    /\ i < Len(result.outputs)
    /\ LET local_file_path == LocalFilePath(result.outputs[i + 1])
       IN \/ /\ Readable(local_file_path)
             /\ \E b \in StorageBehaviours :
                   LET path == Get(local_file_path)
                       stem_name == get_stem_name(i, two_stems, model)
                       up == upload_file_to_supabase(path, stem_name, user_id, i, b)
                       events == <<Event("upload.begin", i, path, <<>>, TRUE, "")>>
                                 \o up.events
                                 \o <<Event("upload.end", i, path, <<>>, up.url /= None, "")>>
                   \* an exception leaving the helper would reach the except
                   \* clause of lines 240-242; the helper catches its own (line 102)
                   IN IF up.raised
                      THEN /\ trace' = trace \o up.events
                           /\ response' = Some(ErrorResponse("upload"))
                           /\ pc' = "error"
                           /\ UNCHANGED <<i, output_files, local_files_to_cleanup>>
                      ELSE /\ trace' = trace \o events
                           /\ output_files' =
                                 Append(output_files,
                                        OutputEntry(EntryIndex(i, output_files),
                                                    up.url, stem_name))
                           /\ local_files_to_cleanup' =
                                 MarkForCleanup(local_files_to_cleanup, path, up.url)
                           /\ i' = i + 1
                           /\ UNCHANGED <<pc, response>>
          \/ /\ ~Readable(local_file_path)
             /\ i' = i + 1
             /\ UNCHANGED <<pc, output_files, local_files_to_cleanup, trace, response>>
    /\ UNCHANGED <<request, supabase, provider, disk, user_id, model, two_stems,
                   overlap, shifts, demucs_call, result, c, call, ret>>

\* lines 188 and 216-217, or the loop of line 189 running out
EndOfOutputs ==
    /\ pc = "process"
    /\ (~result.iterable \/ i = Len(result.outputs))
    /\ c' = 0
    /\ pc' = "cleanup"
    /\ UNCHANGED <<request, supabase, provider, disk, user_id, model, two_stems,
                   overlap, shifts, demucs_call, result, i, output_files,
                   local_files_to_cleanup, trace, response, call, ret>>

\* lines 220-225: one iteration of the cleanup loop; os.remove of a path that
\* is gone raises, and it may raise for a path that is there
Cleanup ==
    /\ pc = "cleanup"
    /\ c < Len(local_files_to_cleanup)
    /\ LET file_path == NextToRemove(local_files_to_cleanup, c)
       IN \/ /\ file_path \in disk
             /\ disk' = disk \ {file_path}
             /\ trace' = Append(trace, Event("os.remove", c, file_path, <<>>, TRUE, ""))
          \/ /\ disk' = disk
             /\ trace' = Append(trace, Event("os.remove", c, file_path, <<>>, FALSE, ""))
    /\ c' = c + 1
    /\ UNCHANGED <<pc, request, supabase, provider, user_id, model, two_stems,
                   overlap, shifts, demucs_call, result, i, output_files,
                   local_files_to_cleanup, response, call, ret>>

\* lines 227-238
Return ==
    /\ pc = "cleanup"
    /\ c = Len(local_files_to_cleanup)
    /\ response' = Some(SuccessResponse(output_files, model, two_stems, overlap,
                                        shifts, request.audio_format))
    /\ pc' = "returned"
    /\ UNCHANGED <<request, supabase, provider, disk, user_id, model, two_stems,
                   overlap, shifts, demucs_call, result, i, output_files,
                   local_files_to_cleanup, c, trace, call, ret>>

Next ==
    \/ ExtractUser
    \/ ConfigureStems
    \/ ConfigureQuality
    \/ DemucsRaises
    \/ DemucsReturns
    \/ ProcessOutput
    \/ EndOfOutputs
    \/ Cleanup
    \/ Return

\* a direct call of get_stem_name(index, two_stems, model)
CallGetStemName ==
    /\ call /= None
    /\ ret = None
    /\ ret' = Some(get_stem_name(Get(call).index, Get(call).two_stems, Get(call).model))
    /\ UNCHANGED <<handler_vars, call>>

NextName == CallGetStemName

----------------------------------------------------------------------------
(* Initial states *)

Request(url, m, two, ov, sh, stems, q) ==
    [audio_url |-> url, model |-> m, two_stems |-> two, overlap |-> ov,
     shifts |-> sh, audio_format |-> "wav", selected_stems |-> stems,
     quality |-> q]

ScenarioUrl ==
    <<"https:", "/", "/", "host", "/", "audio-files", "/", "U1", "/", "song.mp3">>

ModelNames == {"htdemucs", "htdemucs_ft", "htdemucs_6s", "mdx_extra"}
StemWords == {"vocals", "guitar", "piano", "flute"}
QualityValues == {None, Some("standard"), Some("pro"), Some("high")}
UrlChunks == {"/", "audio-files", "U1", "U2"}

\* requests of the handler runs that explore the provider and the storage
HandlerRequests ==
    { Request(ScenarioUrl, "htdemucs", "None", 10, 0, None, Some("standard")),
      Request(<<"song.mp3">>, "htdemucs", "None", 50, 2, Some(<<"vocals">>),
              Some("pro")),
      Request(ScenarioUrl, "htdemucs_ft", "None", 25, 0,
              Some(<<"guitar", "piano">>), Some("standard")) }

\* requests that explore the parameter derivation
ParameterRequests ==
    { Request(ScenarioUrl, m, two, os[1], os[2], stems, q) :
        m \in ModelNames, two \in {"None", "drums"},
        os \in {<<10, 0>>, <<25, 1>>, <<50, 2>>},
        stems \in {None} \cup {Some(l) : l \in SeqsUpTo(StemWords, MaxStems)},
        q \in QualityValues }

\* requests that explore the audio URL
UrlRequests ==
    { Request(url, "htdemucs_ft", "None", 25, 0, None, Some("standard")) :
        url \in SeqsUpTo(UrlChunks, MaxUrlLen) }

ExistingPaths == {"/tmp/a.wav", "/tmp/b.wav"}
MissingPaths == {"/tmp/gone.wav"}

\* output handles demucs.run may return: without a path attribute, with an
\* empty path, with a path that is or is not on disk
Handles ==
    {[has_path |-> FALSE, path |-> ""]}
    \cup {[has_path |-> TRUE, path |-> p] :
            p \in {""} \cup ExistingPaths \cup MissingPaths}

Provider(raises, message, iterable, outputs) ==
    [raises |-> raises, message |-> message, iterable |-> iterable,
     outputs |-> outputs]

Environment(p, configured) == [provider |-> p, supabase |-> configured]

AllEnvironments ==
    { Environment(p, configured) :
        p \in {Provider(TRUE, "quota exceeded", FALSE, <<>>),
                Provider(TRUE, "", FALSE, <<>>),
                Provider(FALSE, "", FALSE, <<>>)}
               \cup {Provider(FALSE, "", TRUE, outs) :
                       outs \in SeqsUpTo(Handles, MaxOutputs)},
        configured \in BOOLEAN }

FewEnvironments ==
    { Environment(Provider(TRUE, "quota exceeded", FALSE, <<>>), TRUE),
      Environment(Provider(FALSE, "", TRUE,
                           <<[has_path |-> TRUE, path |-> "/tmp/a.wav"],
                             [has_path |-> FALSE, path |-> ""]>>), TRUE),
      Environment(Provider(FALSE, "", TRUE,
                           <<[has_path |-> TRUE, path |-> "/tmp/b.wav"]>>), FALSE) }

InitLocals ==
    /\ user_id = Unbound
    /\ model = Unbound
    /\ two_stems = Unbound
    /\ overlap = UnboundNum
    /\ shifts = UnboundNum
    /\ demucs_call = None
    /\ result = [iterable |-> FALSE, outputs |-> <<>>]
    /\ i = 0
    /\ output_files = <<>>
    /\ local_files_to_cleanup = <<>>
    /\ c = 0
    /\ trace = <<>>
    /\ response = None

InitWith(requests, environments) ==
    /\ pc = "extract_user"
    /\ request \in requests
    /\ \E e \in environments : provider = e.provider /\ supabase = e.supabase
    /\ disk = ExistingPaths
    /\ InitLocals
    /\ call = None
    /\ ret = None

Init == InitWith(HandlerRequests, AllEnvironments)
InitParameters == InitWith(ParameterRequests, FewEnvironments)
InitUrl == InitWith(UrlRequests, FewEnvironments)

InitName ==
    /\ pc = "idle"
    /\ request = Request(<<>>, "htdemucs_ft", "None", 25, 0, None, Some("standard"))
    /\ provider = Provider(FALSE, "", FALSE, <<>>)
    /\ supabase = FALSE
    /\ disk = {}
    /\ InitLocals
    /\ call \in {Some([index |-> n, two_stems |-> two, model |-> m]) :
                    n \in 0..MaxIndex, two \in {"None", "vocals", "piano", ""},
                    m \in ModelNames}
    /\ ret = None

Spec == Init /\ [][Next]_vars
SpecParameters == InitParameters /\ [][Next]_vars
SpecUrl == InitUrl /\ [][Next]_vars
SpecName == InitName /\ [][NextName]_vars

----------------------------------------------------------------------------
(* Vocabulary of the properties *)

Positions(ops) == {n \in 1..Len(trace) : trace[n].op \in ops}
StorageOps == {"open", "storage.upload", "storage.get_public_url"}
UploadOps == StorageOps \cup {"upload.begin", "upload.end"}

\* 1-based positions of the returned outputs that have a path existing on disk
ReadablePositions ==
    {k \in 1..Len(result.outputs) :
        /\ result.iterable
        /\ result.outputs[k].has_path
        /\ result.outputs[k].path \in ExistingPaths}

RECURSIVE Ascending(_)
\* the members of a finite set of integers, smallest first
Ascending(S) ==
    IF S = {} THEN <<>>
    ELSE LET least == CHOOSE x \in S : \A y \in S : x <= y
         IN <<least>> \o Ascending(S \ {least})

OkResponse ==
    /\ response /= None
    /\ Get(response).status_code = 200
    /\ Get(response).status = "completed"
    /\ Get(response).output_files = Some(output_files)

----------------------------------------------------------------------------
\* C1: when demucs.run raises, the handler answers 500 with detail
\* "Failed to complete separation: " followed by the error message, no upload
\* is attempted and no output_files list is returned.
C1_UpstreamFailure ==
    (\E n \in Positions({"demucs.run"}) : ~trace[n].ok) =>
        /\ pc = "error"
        /\ response /= None
        /\ Get(response).status_code = 500
        /\ Get(response).detail = "Failed to complete separation: " \o provider.message
        /\ Get(response).output_files = None
        /\ Positions(UploadOps) = {}
        /\ output_files = <<>>

C1_Witness ==
    /\ pc = "error"
    /\ supabase
    /\ provider.message = "quota exceeded"
    /\ \E n \in Positions({"demucs.run"}) : ~trace[n].ok

\* C2: when the handler returns, every output whose path exists on disk has
\* had a deletion attempted, whether its upload gave a URL or not; a failed
\* deletion neither changes the response nor raises.
C2_CleanupAlways ==
    /\ pc = "returned" =>
          /\ \A p \in ExistingPaths :
                Cardinality({n \in Positions({"os.remove"}) : trace[n].path = p})
                  = Cardinality({k \in ReadablePositions : result.outputs[k].path = p})
          /\ OkResponse
          /\ Len(output_files) = Cardinality(ReadablePositions)
    /\ Positions({"os.remove"}) /= {} => pc \in {"cleanup", "returned"}

C2_Witness ==
    /\ pc = "returned"
    /\ \E n \in Positions({"os.remove"}) : ~trace[n].ok /\ trace[n].path \in disk
    /\ \E k \in 1..Len(output_files) : output_files[k].url = None
    /\ \E k \in 1..Len(output_files) : output_files[k].url /= None

\* C3: an output without a path, or whose path is not on disk, is absent from
\* output_files and gets no upload and no deletion attempt; every other
\* output is processed: one entry per readable output, in the provider's
\* order, index = its 0-based position in the provider's list, stem_name
\* computed from that position.
C3_UnreadableSkipped ==
    pc \in {"cleanup", "returned"} =>
        LET readable == Ascending(ReadablePositions)
        IN /\ Len(output_files) = Len(readable)
           /\ \A k \in 1..Len(readable) :
                 /\ output_files[k].index = readable[k] - 1
                 /\ output_files[k].stem_name =
                       get_stem_name(readable[k] - 1, two_stems, model)
           /\ \A n \in Positions(UploadOps) : trace[n].index + 1 \in ReadablePositions
           /\ \A n \in Positions(UploadOps \cup {"os.remove"}) :
                 trace[n].path \in ExistingPaths
           /\ Cardinality(Positions({"os.remove"})) <= Len(readable)

C3_Witness ==
    /\ pc = "returned"
    /\ Len(result.outputs) = 2
    /\ result.outputs[1].path \in MissingPaths
    /\ ReadablePositions = {2}
    /\ output_files[1].index = 1
    /\ output_files[1].stem_name = "drums"

\* the URL an upload yields under storage behaviour how
ExpectedUrl(how, index, stem_name) ==
    IF how \in {"str", "str_q", "dict"}
    THEN Some(PublicBase \o StoragePath(user_id, Uuid4(index), stem_name))
    ELSE None

\* C4: an upload failure is per-file and never fatal: the entry of an output
\* whose upload or URL lookup raises has url null, the other entries depend
\* on their own upload only and their uploads are still attempted, and the
\* response is 200 "completed"; with the storage client unconfigured no
\* storage call is made and every url is null, again with 200 "completed".
C4_UploadFailureNotFatal ==
    /\ pc = "error" => Positions(UploadOps) = {}
    /\ pc = "returned" =>
          /\ OkResponse
          /\ \A k \in ReadablePositions :
                \E n \in Positions({"upload.begin"}) : trace[n].index = k - 1
          /\ ~supabase =>
                /\ Positions(StorageOps) = {}
                /\ \A k \in 1..Len(output_files) : output_files[k].url = None
          /\ supabase =>
                \A k \in 1..Len(output_files) :
                    LET entry == output_files[k]
                        own == {n \in Positions(StorageOps) : trace[n].index = entry.index}
                    IN /\ \E n \in own : trace[n].op = "open"
                       /\ \A n \in own :
                             /\ ~trace[n].ok => entry.url = None
                             /\ entry.url = ExpectedUrl(trace[n].how, entry.index,
                                                        entry.stem_name)

C4_Witness ==
    /\ pc = "returned"
    /\ supabase
    /\ Len(output_files) = 2
    /\ output_files[1].url = None
    /\ output_files[2].url /= None
    /\ \E n \in Positions({"storage.get_public_url"}) :
          trace[n].index = output_files[1].index /\ ~trace[n].ok

\* C10: within one request the external operations are ordered: demucs.run
\* completes before any upload starts; uploads run one at a time in the
\* provider's order, each finishing before the next starts; no file is
\* deleted before every upload attempt has finished, and the queued files
\* are then deleted one by one in the same order.
C10_OperationOrder ==
    LET begins == Ascending(Positions({"upload.begin"}))
        removes == Ascending(Positions({"os.remove"}))
    IN /\ \A n \in 1..Len(trace) : (n = 1) <=> (trace[n].op = "demucs.run")
       /\ \A a \in Positions({"upload.begin"}) :
             \E e \in Positions({"upload.end"}) :
                /\ a < e
                /\ trace[e].index = trace[a].index
                /\ \A m \in (a + 1)..(e - 1) :
                      trace[m].op \in StorageOps /\ trace[m].index = trace[a].index
       /\ \A m \in Positions(StorageOps \cup {"upload.end"}) :
             \E a \in Positions({"upload.begin"}) :
                a < m /\ trace[a].index = trace[m].index
       /\ \A a, b \in Positions({"upload.begin"}) :
             a < b => trace[a].index < trace[b].index
       /\ \A a \in Positions(UploadOps), r \in Positions({"os.remove"}) : a < r
       /\ removes /= <<>> => pc \in {"cleanup", "returned"}
       /\ Len(removes) <= Len(begins)
       /\ \A k \in 1..Len(removes) :
             trace[removes[k]].path = trace[begins[k]].path
       /\ pc = "returned" => Len(removes) = Len(begins)

C10_Witness ==
    /\ pc = "returned"
    /\ supabase
    /\ Cardinality(Positions({"storage.upload"})) = 2
    /\ \E a, b \in Positions({"os.remove"}) :
          a < b /\ trace[a].path = "/tmp/b.wav" /\ trace[b].path = "/tmp/a.wav"

----------------------------------------------------------------------------
(* Parameter derivation *)

Resolved == pc \notin {"extract_user", "configure_stems", "idle"}

SingleRecognizedStem(req) ==
    \E s \in RecognizedStems : req.selected_stems = Some(<<s>>)

WantsGuitarOrPiano(req) ==
    /\ req.selected_stems /= None
    /\ \E k \in 1..Len(Get(req.selected_stems)) :
          Get(req.selected_stems)[k] \in {"guitar", "piano"}

\* C5: with selected_stems = [s], s one of the six recognized stems, the
\* resolved two-stem target is s whatever two_stems, model and quality are;
\* for every other request it is the request's two_stems unchanged.
C5_TwoStemTarget ==
    Resolved =>
        /\ SingleRecognizedStem(request) => two_stems = Get(request.selected_stems)[1]
        /\ ~SingleRecognizedStem(request) => two_stems = request.two_stems
        /\ demucs_call /= None => Get(demucs_call).two_stems = two_stems
        /\ pc = "returned" => Get(Get(response).parameters).two_stems = two_stems

C5_Witness ==
    /\ pc = "returned"
    /\ request.selected_stems = Some(<<"guitar">>)
    /\ request.two_stems = "drums"
    /\ request.quality = Some("pro")
    /\ Get(Get(response).parameters).two_stems = "guitar"

\* C6: when selected_stems contains "guitar" or "piano" the resolved model is
\* "htdemucs_6s" whatever the requested model and quality are (the "pro"
\* upgrade never replaces it); otherwise the stem selection leaves the model
\* as requested.
C6_SixStemModel ==
    /\ Resolved /\ WantsGuitarOrPiano(request) => model = "htdemucs_6s"
    /\ pc = "configure_quality" /\ ~WantsGuitarOrPiano(request) =>
          model = request.model
    /\ demucs_call /= None => Get(demucs_call).model = model
    /\ pc = "returned" => Get(Get(response).parameters).model = model

C6_Witness ==
    /\ pc = "returned"
    /\ request.selected_stems = Some(<<"vocals", "piano">>)
    /\ request.model = "htdemucs"
    /\ request.quality = Some("pro")
    /\ Get(Get(response).parameters).model = "htdemucs_6s"

\* C7: with quality "pro" the resolved overlap is 0.25 and the shift count 1
\* whatever was requested, and the model left by the stem selection becomes
\* "htdemucs_ft" if it is "htdemucs" and is kept otherwise; with any other
\* quality the overlap, the shifts and that model are the request's own.
C7_QualityTier ==
    [][/\ (pc = "configure_quality" /\ request.quality = Some("pro")) =>
             /\ overlap' = 25
             /\ shifts' = 1
             /\ model' = IF model = "htdemucs" THEN "htdemucs_ft" ELSE model
       /\ (pc = "configure_quality" /\ request.quality /= Some("pro")) =>
             /\ overlap' = request.overlap
             /\ shifts' = request.shifts
             /\ model' = model
       /\ pc \in {"run", "process", "cleanup"} =>
             /\ <<model', overlap', shifts'>> = <<model, overlap, shifts>>
             /\ (demucs_call' /= None =>
                   /\ Get(demucs_call').model = model
                   /\ Get(demucs_call').overlap = overlap
                   /\ Get(demucs_call').shifts = shifts)
             /\ (pc' = "returned" =>
                   /\ Get(Get(response').parameters).model = model
                   /\ Get(Get(response').parameters).overlap = overlap
                   /\ Get(Get(response').parameters).shifts = shifts)]_vars

C7_Witness ==
    /\ pc = "run"
    /\ request.quality = Some("pro")
    /\ request.model = "htdemucs"
    /\ request.overlap = 50
    /\ request.shifts = 2
    /\ model = "htdemucs_ft"
    /\ overlap = 25
    /\ shifts = 1

----------------------------------------------------------------------------
(* Stem naming *)

FourStemTable == [n \in 0..3 |->
    CASE n = 0 -> "vocals" [] n = 1 -> "drums" [] n = 2 -> "bass" [] n = 3 -> "other"]

SixStemTable == [n \in 0..5 |->
    CASE n = 0 -> "vocals" [] n = 1 -> "drums" [] n = 2 -> "bass" [] n = 3 -> "other"
      [] n = 4 -> "guitar" [] n = 5 -> "piano"]

NameReference(index, two, m) ==
    LET table == IF m = "htdemucs_6s" THEN SixStemTable ELSE FourStemTable
    IN CASE two /= "None" /\ index = 0 -> two
         [] two /= "None" /\ index /= 0 -> "no_" \o two
         [] two = "None" /\ index \in DOMAIN table -> table[index]
         [] OTHER -> "stem_" \o ToString(index)

\* C8: get_stem_name is total for index >= 0 and agrees with the reference:
\* in two-stem mode index 0 gives two_stems and any other index "no_" +
\* two_stems, whatever the model; otherwise the index-th name of the six-stem
\* table for "htdemucs_6s", of the four-stem table for any other model, and
\* "stem_" + index when the index is outside the table used.
C8_StemNaming ==
    /\ call /= None /\ ret /= None =>
          Get(ret) = NameReference(Get(call).index, Get(call).two_stems, Get(call).model)
    /\ call = Some([index |-> 7, two_stems |-> "None", model |-> "htdemucs"])
          /\ ret /= None => ret = Some("stem_7")
    /\ call = Some([index |-> 3, two_stems |-> "None", model |-> "htdemucs_6s"])
          /\ ret /= None => ret = Some("other")
    /\ call = Some([index |-> 1, two_stems |-> "vocals", model |-> "htdemucs_6s"])
          /\ ret /= None => ret = Some("no_vocals")

C8_Witness ==
    /\ call = Some([index |-> 5, two_stems |-> "None", model |-> "htdemucs_6s"])
    /\ ret = Some("piano")

----------------------------------------------------------------------------
(* Owner of the storage destination *)

\* positions of the marker segment among the "/"-separated segments
MarkerPositions(parts) == {k \in 1..Len(parts) : parts[k] = "audio-files"}

FirstMarker(parts) ==
    CHOOSE k \in MarkerPositions(parts) : \A j \in MarkerPositions(parts) : k <= j

\* the claim as stated: the segment after the first marker, "anonymous" when
\* there is no marker or nothing follows it
OwnerAsStated(parts) ==
    IF MarkerPositions(parts) = {} \/ FirstMarker(parts) = Len(parts)
    THEN "anonymous"
    ELSE parts[FirstMarker(parts) + 1]

\* as amended: an empty following segment also gives "anonymous"
OwnerAmended(parts) ==
    IF OwnerAsStated(parts) = "" THEN "anonymous" ELSE OwnerAsStated(parts)

DestinationsUseOwner ==
    \A n \in Positions({"storage.upload", "storage.get_public_url"}) :
        Split(trace[n].dest)[1] = user_id

\* C9 as stated: the owner is the segment that follows the first
\* "audio-files" segment of the URL, or "anonymous" when the URL has no such
\* segment or no segment follows it; every upload's destination path starts
\* with that owner.
C9_OwnerAsStated ==
    pc /= "extract_user" =>
        /\ user_id = OwnerAsStated(Split(request.audio_url))
        /\ DestinationsUseOwner

\* C9 as amended: the owner is the segment that follows the first
\* "audio-files" segment when that segment is not empty, and "anonymous"
\* when the URL has no such segment, no segment follows it, or the segment
\* that follows it is empty; every upload's destination path starts with
\* that owner.
C9_OwnerAmended ==
    pc /= "extract_user" =>
        /\ user_id = OwnerAmended(Split(request.audio_url))
        /\ DestinationsUseOwner

C9_Witness ==
    /\ pc = "returned"
    /\ request.audio_url = <<"U2", "/", "audio-files", "/", "/">>
    /\ user_id = "anonymous"
    /\ \E n \in Positions({"storage.upload"}) :
          trace[n].ok /\ Split(trace[n].dest)[1] = "anonymous"

====
